---- MODULE Spec2Model ----
(***************************************************************************)
(* Kanban task board of script.js: the task store currentTasksState, the   *)
(* three status columns it is rendered into, and the task modal whose      *)
(* buttons create, update and delete tasks.                                *)
(***************************************************************************)
EXTENDS Integers, Sequences, FiniteSets, TLC

VARIABLES
  currentTasksState,  \* the store: a sequence of Task records
  containers,         \* status -> sequence of task cards (.tasks-container children)
  headers,            \* status -> text of the .columnHeader, a sequence of tokens
  modals,             \* open modal backdrops, each holding the task its closures captured
  lastOp,             \* the handler that ran last, with the id it passed on
  issued,             \* every id a task of the store has ever had
  steps               \* number of user actions so far

vars == <<currentTasksState, containers, headers, modals, lastOp, issued, steps>>

\* ---------------------------------------------------------------- bounds
MaxSteps == 4
MaxModals == 2
MaxLeft == 2

\* ---------------------------------------------------------------- data
\* the statuses updateTaskCountDisplays walks through
statuses == <<"todo", "doing", "done">>

\* a dropdown whose last option value does not name a column
statusOptionsTypo == <<"todo", "doing", "completed">>

\* the option values of the modal's status dropdown
statusOptions == <<"todo", "doing", "done">>

\* the data-status values of the page's three .column-div elements
Statuses == {"todo", "doing", "done"}

\* values a user types into the title input and the description textarea
TitleInputs == {"", "Take chilled break"}

DescriptionInputs == {"Pet your dog"}

\* the seed with a copied record whose id was not renumbered
initialTasksDupId ==
  << [id |-> 1, title |-> "Launch Epic Career", description |-> "Create a killer Resume", status |-> "todo"],
     [id |-> 2, title |-> "Conquer React", description |-> "Become proficient in React.js", status |-> "todo"],
     [id |-> 3, title |-> "Understand Databases", description |-> "Learn about databases", status |-> "todo"],
     [id |-> 4, title |-> "Crush Frameworks", description |-> "Master popular web frameworks", status |-> "todo"],
     [id |-> 5, title |-> "Master JavaScript", description |-> "Get comfortable with JavaScript", status |-> "doing"],
     [id |-> 6, title |-> "Never Give Up", description |-> "Stay persistent and motivated", status |-> "doing"],
     [id |-> 7, title |-> "Explore ES6 Features", description |-> "Dive deep into modern JavaScript", status |-> "done"],
     [id |-> 7, title |-> "Have fun", description |-> "Remember to enjoy the process", status |-> "done"] >>

initialTasks ==
  << [id |-> 1, title |-> "Launch Epic Career", description |-> "Create a killer Resume", status |-> "todo"],
     [id |-> 2, title |-> "Conquer React", description |-> "Become proficient in React.js", status |-> "todo"],
     [id |-> 3, title |-> "Understand Databases", description |-> "Learn about databases", status |-> "todo"],
     [id |-> 4, title |-> "Crush Frameworks", description |-> "Master popular web frameworks", status |-> "todo"],
     [id |-> 5, title |-> "Master JavaScript", description |-> "Get comfortable with JavaScript", status |-> "doing"],
     [id |-> 6, title |-> "Never Give Up", description |-> "Stay persistent and motivated", status |-> "doing"],
     [id |-> 7, title |-> "Explore ES6 Features", description |-> "Dive deep into modern JavaScript", status |-> "done"],
     [id |-> 8, title |-> "Have fun", description |-> "Remember to enjoy the process", status |-> "done"] >>

\* openTaskModal(task = null): the modal of the "add" mode captures no task
NoTask == [id |-> 0, title |-> "", description |-> "", status |-> "todo"]

\* ---------------------------------------------------------------- helpers
Ids(tasks) == {tasks[i].id : i \in DOMAIN tasks}

MaxOf(S) == CHOOSE m \in S : \A x \in S : x <= m

RemoveAt(s, k) == SubSeq(s, 1, k - 1) \o SubSeq(s, k + 1, Len(s))

\* ---------------------------------------------------------------- renderer
\* createTaskElement: a card shows the title and its click listener captures the task
createTaskElement(task) == [taskId |-> task.id, textContent |-> task.title, task |-> task]

\* String.prototype.split('(')[0] on a token sequence: the text before the first "("
RECURSIVE BeforeParen(_)
BeforeParen(text) ==
  IF text = <<>> THEN <<>>
  ELSE IF Head(text) = "(" THEN <<>>
       ELSE <<Head(text)>> \o BeforeParen(Tail(text))

\* String.prototype.trim on a token sequence
RECURSIVE TrimStart(_)
TrimStart(text) ==
  IF text # <<>> /\ Head(text) = " " THEN TrimStart(Tail(text)) ELSE text

RECURSIVE TrimEnd(_)
TrimEnd(text) ==
  IF text # <<>> /\ text[Len(text)] = " " THEN TrimEnd(SubSeq(text, 1, Len(text) - 1)) ELSE text

\* the label taken from the header without .trim()
TrimNone(text) == text

Trim(text) == TrimEnd(TrimStart(text))

\* the template literal `${currentText} (${count})`
HeaderText(currentText, count) == currentText \o <<" ", "(", ToString(count), ")">>

\* the count taken over the whole store instead of the status's tasks
updateTaskCountDisplaysNoFilter(tasks, hdrs) ==
  [status \in DOMAIN hdrs |->
     IF \E k \in DOMAIN statuses : statuses[k] = status
     THEN LET count == Len(tasks)
              currentText == Trim(BeforeParen(hdrs[status]))
          IN  HeaderText(currentText, count)
     ELSE hdrs[status]]

updateTaskCountDisplays(tasks, hdrs) ==
  [status \in DOMAIN hdrs |->
     IF \E k \in DOMAIN statuses : statuses[k] = status
     THEN LET count == Len(SelectSeq(tasks, LAMBDA task : task.status = status))
              currentText == Trim(BeforeParen(hdrs[status]))
          IN  HeaderText(currentText, count)
     ELSE hdrs[status]]

\* the forEach of renderTasks: append each card to the container of its status,
\* if the page has one
RECURSIVE AppendCards(_, _)
AppendCards(tasks, conts) ==
  IF tasks = <<>> THEN conts
  ELSE LET task == Head(tasks)
           taskElement == createTaskElement(task)
       IN  AppendCards(Tail(tasks),
             IF task.status \in DOMAIN conts
             THEN [conts EXCEPT ![task.status] = Append(@, taskElement)]
             ELSE conts)

ClearContainers(conts) == [status \in DOMAIN conts |-> <<>>]

\* renderTasks without the clearing of the containers
renderTasksContainersNoClear(tasks, conts) == AppendCards(tasks, conts)

renderTasksContainers(tasks, conts) == AppendCards(tasks, ClearContainers(conts))

\* ---------------------------------------------------------------- task store
\* addNewTask: the next id is the largest id of the store plus one, 1 for an empty store
\* the next id taken from the length of the store
NextIdByLength(tasks) == Len(tasks) + 1

NextId(tasks) == IF tasks = <<>> THEN 1 ELSE MaxOf(Ids(tasks)) + 1

addNewTask(tasks, title, description, status) ==
  Append(tasks, [id |-> NextId(tasks), title |-> title,
                 description |-> description, status |-> status])

\* updateTaskState: replaces the three fields of the record that has the id
updateTaskState(tasks, taskId, title, description, status) ==
  [i \in DOMAIN tasks |->
     IF tasks[i].id = taskId
     THEN [tasks[i] EXCEPT !.title = title, !.description = description, !.status = status]
     ELSE tasks[i]]

\* deleteTask: removes the record that has the id
deleteTask(tasks, taskId) == SelectSeq(tasks, LAMBDA task : task.id # taskId)

\* ---------------------------------------------------------------- page
\* text of the three column headers in the page before the first render
HeaderForms == {"plain", "counted"}

HtmlHeaders(form) ==
  LET label == [status \in Statuses |->
                  IF status = "todo" THEN "TODO"
                  ELSE IF status = "doing" THEN "DOING" ELSE "DONE"]
  IN  [status \in Statuses |->
         IF form = "plain" THEN <<label[status]>>
         ELSE <<label[status], " ", "(", "0", ")">>]

HtmlContainers == [status \in Statuses |-> <<>>]

\* ---------------------------------------------------------------- actions
\* renderTasks(): both parts of the page are rebuilt from the store
\* the page rebuilt from the store as it was before the handler changed it
RenderedStale(tasks) ==
  /\ containers' = renderTasksContainers(currentTasksState, containers)
  /\ headers' = updateTaskCountDisplays(currentTasksState, headers)

Rendered(tasks) ==
  /\ containers' = renderTasksContainers(tasks, containers)
  /\ headers' = updateTaskCountDisplays(tasks, headers)

Step == steps < MaxSteps /\ steps' = steps + 1

\* openTaskModal(task): a new backdrop whose closures hold `task`
openTaskModal(task) ==
  /\ Len(modals) < MaxModals
  /\ modals' = Append(modals, task)

\* click on a task card: the listener createTaskElement added
ClickTaskCard ==
  \E status \in Statuses : \E k \in DOMAIN containers[status] :
    LET card == containers[status][k] IN
    /\ Step
    /\ openTaskModal(card.task)
    /\ lastOp' = [kind |-> "open", id |-> card.task.id, found |-> TRUE]
    /\ UNCHANGED <<currentTasksState, containers, headers, issued>>

\* click on the page's "add task" button: openTaskModal() with no task
ClickAddTask ==
  /\ Step
  /\ openTaskModal(NoTask)
  /\ lastOp' = [kind |-> "open", id |-> 0, found |-> TRUE]
  /\ UNCHANGED <<currentTasksState, containers, headers, issued>>

\* closeButton listener: modalBackdrop.remove()
CloseButtonClick(m) ==
  /\ Step
  /\ modals' = RemoveAt(modals, m)
  /\ lastOp' = [kind |-> "close", id |-> modals[m].id, found |-> TRUE]
  /\ UNCHANGED <<currentTasksState, containers, headers, issued>>

\* the primary button with the two branches of `if (task)` swapped
PrimaryButtonClickSwapped(m) ==
  LET task == modals[m] IN
  \E title \in TitleInputs \cup {task.title},
     description \in DescriptionInputs \cup {task.description},
     status \in {statusOptions[k] : k \in DOMAIN statusOptions} :
    /\ Step
    /\ IF task = NoTask
       THEN currentTasksState' =
              updateTaskState(currentTasksState, task.id, title, description, status)
       ELSE currentTasksState' = addNewTask(currentTasksState, title, description, status)
    /\ lastOp' = [kind |-> "save", id |-> task.id,
                  found |-> task.id \in Ids(currentTasksState)]
    /\ Rendered(currentTasksState')
    /\ issued' = issued \cup Ids(currentTasksState')
    /\ modals' = RemoveAt(modals, m)

\* primaryButton listener: update when the modal holds a task, create otherwise
PrimaryButtonClick(m) ==
  LET task == modals[m] IN
  \E title \in TitleInputs \cup {task.title},
     description \in DescriptionInputs \cup {task.description},
     status \in {statusOptions[k] : k \in DOMAIN statusOptions} :
    /\ Step
    /\ IF task # NoTask
       THEN currentTasksState' =
              updateTaskState(currentTasksState, task.id, title, description, status)
       ELSE currentTasksState' = addNewTask(currentTasksState, title, description, status)
    /\ lastOp' = [kind |-> "save", id |-> task.id,
                  found |-> task.id \in Ids(currentTasksState)]
    /\ Rendered(currentTasksState')
    /\ issued' = issued \cup Ids(currentTasksState')
    /\ modals' = RemoveAt(modals, m)

\* the delete button that closes the modal without calling deleteTask
DeleteButtonClickCloseOnly(m) ==
  LET task == modals[m] IN
  /\ task # NoTask
  /\ Step
  /\ currentTasksState' = currentTasksState
  /\ lastOp' = [kind |-> "delete", id |-> task.id,
                found |-> task.id \in Ids(currentTasksState)]
  /\ Rendered(currentTasksState')
  /\ modals' = RemoveAt(modals, m)
  /\ UNCHANGED issued

\* deleteButton listener: the button exists only in a modal that holds a task
DeleteButtonClick(m) ==
  LET task == modals[m] IN
  /\ task # NoTask
  /\ Step
  /\ currentTasksState' = deleteTask(currentTasksState, task.id)
  /\ lastOp' = [kind |-> "delete", id |-> task.id,
                found |-> task.id \in Ids(currentTasksState)]
  /\ Rendered(currentTasksState')
  /\ modals' = RemoveAt(modals, m)
  /\ UNCHANGED issued

\* ---------------------------------------------------------------- specification
\* the stores left when all but at most MaxLeft of the seeded tasks were deleted
DrainedStores ==
  {SelectSeq(initialTasks, LAMBDA task : task.id \in keep) :
     keep \in {K \in SUBSET Ids(initialTasks) : Cardinality(K) <= MaxLeft}}

InitPage(tasks) ==
  /\ currentTasksState = tasks
  /\ containers = renderTasksContainers(tasks, HtmlContainers)
  /\ \E form \in HeaderForms : headers = updateTaskCountDisplays(tasks, HtmlHeaders(form))
  /\ modals = <<>>
  /\ lastOp = [kind |-> "none", id |-> 0, found |-> TRUE]
  /\ issued = Ids(initialTasks)
  /\ steps = 0

Init == InitPage(initialTasks)

Next ==
  \/ ClickTaskCard
  \/ ClickAddTask
  \/ \E m \in DOMAIN modals : CloseButtonClick(m)
  \/ \E m \in DOMAIN modals : PrimaryButtonClick(m)
  \/ \E m \in DOMAIN modals : DeleteButtonClick(m)

Spec == Init /\ [][Next]_vars

\* the same board, started from a store that earlier deletions have drained
InitDrained == \E tasks \in DrainedStores : InitPage(tasks)

SpecDrained == InitDrained /\ [][Next]_vars

\* ---------------------------------------------------------------- properties
\* what the board displays
MaxCount == Len(initialTasks) + MaxSteps + 1

\* the number a header shows between its parentheses, -1 when it shows none
DisplayedCount(status) ==
  LET text == headers[status]
      opens == {k \in DOMAIN text : text[k] = "("}
  IN  IF opens = {} \/ MaxOf(opens) = Len(text) THEN -1
      ELSE LET token == text[MaxOf(opens) + 1]
           IN  IF \E n \in 0..MaxCount : ToString(n) = token
               THEN CHOOSE n \in 0..MaxCount : ToString(n) = token
               ELSE -1

\* the places (column, position) where a card of the task id is displayed
CardPlaces(taskId) ==
  {<<status, k>> \in Statuses \X (1..MaxCount) :
     k \in DOMAIN containers[status] /\ containers[status][k].taskId = taskId}

\* the handler that ran last, read off lastOp
IsCreate(op) == op.kind = "save" /\ op.id = NoTask.id

IsUpdate(op) == op.kind = "save" /\ op.id # NoTask.id

IsDelete(op) == op.kind = "delete"

\* C1: in every state reachable from the 8 seeded tasks by create, update and
\* delete, no two records of the store have the same id.
C1_UniqueIds ==
  \A i, j \in DOMAIN currentTasksState :
    i # j => currentTasksState[i].id # currentTasksState[j].id

\* a create that followed a delete: the store has 8 records again, not the seeded ones
C1_Witness ==
  /\ IsCreate(lastOp)
  /\ Len(currentTasksState) = Len(initialTasks)
  /\ Ids(currentTasksState) # Ids(initialTasks)

\* C2: create grows the store by exactly one record, appended at the end, and
\* the new record's id is the largest id of the store before the call plus one
\* (1 when the store was empty), hence greater than every id of that store.
C2_CreateAddsOne ==
  [][ IsCreate(lastOp') /\ steps' # steps =>
        /\ Len(currentTasksState') = Len(currentTasksState) + 1
        /\ currentTasksState'[Len(currentTasksState')].id =
             (IF Ids(currentTasksState) = {} THEN 1
              ELSE MaxOf(Ids(currentTasksState)) + 1)
        /\ \A x \in Ids(currentTasksState) :
             x < currentTasksState'[Len(currentTasksState')].id ]_vars

\* a create on the empty store gave id 1
C2_Witness ==
  /\ IsCreate(lastOp)
  /\ Len(currentTasksState) = 1
  /\ currentTasksState[1].id = 1

\* C3: update on an id of the store changes only title, description and status
\* of the record with that id; the other records, that record's id, and the
\* store's size and order stay as they were.
C3_UpdateFrame ==
  [][ IsUpdate(lastOp') /\ steps' # steps /\ lastOp'.id \in Ids(currentTasksState) =>
        /\ Len(currentTasksState') = Len(currentTasksState)
        /\ \A i \in DOMAIN currentTasksState :
             /\ currentTasksState'[i].id = currentTasksState[i].id
             /\ currentTasksState[i].id # lastOp'.id =>
                  currentTasksState'[i] = currentTasksState[i] ]_vars

\* an update of a record of the store that changed the record
C3_Witness ==
  /\ IsUpdate(lastOp)
  /\ lastOp.found
  /\ lastOp.id \in DOMAIN initialTasks
  /\ \E i \in DOMAIN currentTasksState :
       /\ currentTasksState[i].id = lastOp.id
       /\ currentTasksState[i] # initialTasks[lastOp.id]

\* C4: delete on an id of the store removes exactly the record with that id:
\* the store is one shorter and the other records remain, unchanged, in order.
C4_DeleteFrame ==
  [][ IsDelete(lastOp') /\ steps' # steps /\ lastOp'.id \in Ids(currentTasksState) =>
        /\ Len(currentTasksState') = Len(currentTasksState) - 1
        /\ \E k \in DOMAIN currentTasksState :
             /\ currentTasksState[k].id = lastOp'.id
             /\ currentTasksState' = RemoveAt(currentTasksState, k) ]_vars

\* a delete of a record from the middle of the store
C4_Witness ==
  /\ IsDelete(lastOp)
  /\ lastOp.found
  /\ lastOp.id = 3
  /\ Len(currentTasksState) = Len(initialTasks) - 1

\* C5: the three displayed per-column counts add up to the number of tasks.
C5_CountsSum ==
  DisplayedCount("todo") + DisplayedCount("doing") + DisplayedCount("done")
    = Len(currentTasksState)

\* the board after a task was created in "doing": the counts are 4, 3 and 2
C5_Witness ==
  /\ IsCreate(lastOp)
  /\ DisplayedCount("todo") = 4
  /\ DisplayedCount("doing") = 3
  /\ DisplayedCount("done") = 2

\* C6: each task of the store is displayed exactly once, in the column of its
\* status, and every card on the board is the card of a task of the store.
C6_OneColumn ==
  /\ \A i \in DOMAIN currentTasksState :
       LET task == currentTasksState[i] IN
       /\ Cardinality(CardPlaces(task.id)) = 1
       /\ \A place \in CardPlaces(task.id) : place[1] = task.status
  /\ \A status \in Statuses : \A k \in DOMAIN containers[status] :
       containers[status][k].taskId \in Ids(currentTasksState)

\* an update moved the first seeded task to the "done" column
C6_Witness ==
  /\ IsUpdate(lastOp)
  /\ lastOp.id = 1
  /\ \E k \in DOMAIN containers["done"] : containers["done"][k].taskId = 1

\* C7: update or delete with an id that no record has leaves the store as it was.
C7_MissingIdNoChange ==
  [][ (IsUpdate(lastOp') \/ IsDelete(lastOp')) /\ steps' # steps
        /\ lastOp'.id \notin Ids(currentTasksState) =>
        currentTasksState' = currentTasksState ]_vars

\* a save from a modal whose task another modal had deleted
C7_Witness ==
  /\ IsUpdate(lastOp)
  /\ ~lastOp.found

\* C8: every record's status is one of todo, doing, done.
C8_StatusEnum ==
  \A i \in DOMAIN currentTasksState :
    currentTasksState[i].status \in {"todo", "doing", "done"}

\* an update gave a seeded "todo" task another status
C8_Witness ==
  /\ IsUpdate(lastOp)
  /\ lastOp.found
  /\ \E i \in DOMAIN currentTasksState :
       /\ currentTasksState[i].id = 2
       /\ lastOp.id = 2
       /\ currentTasksState[i].status = "doing"

\* C9 as stated: a created task's id is greater than the id of every task
\* created before it, deleted ones included (no id is ever used again).
C9_NeverReused ==
  [][ IsCreate(lastOp') /\ steps' # steps =>
        \A x \in issued : x < currentTasksState'[Len(currentTasksState')].id ]_vars

\* C9 amended: a created task's id is greater than the id of every task that
\* is in the store when it is created; the id of a deleted task is used again
\* when no remaining task has a greater or equal id.
C9_GreaterThanStored ==
  [][ IsCreate(lastOp') /\ steps' # steps =>
        \A i \in DOMAIN currentTasksState :
          currentTasksState[i].id < currentTasksState'[Len(currentTasksState')].id ]_vars

\* a create after a delete, while an id that was issued is not in the store
C9_Witness ==
  /\ IsCreate(lastOp)
  /\ issued \ Ids(currentTasksState) # {}
  /\ Len(currentTasksState) >= 2

\* C10: between user actions the board shows the current store: each column
\* lists the store's tasks of its status, in store order, and its header shows
\* their number.
C10_BoardIsProjection ==
  \A status \in Statuses :
    LET shown == SelectSeq(currentTasksState, LAMBDA task : task.status = status) IN
    /\ Len(containers[status]) = Len(shown)
    /\ \A k \in DOMAIN shown :
         /\ containers[status][k].taskId = shown[k].id
         /\ containers[status][k].textContent = shown[k].title
    /\ DisplayedCount(status) = Len(shown)

\* the board after a delete that removed a record
C10_Witness ==
  /\ IsDelete(lastOp)
  /\ lastOp.found
  /\ Len(currentTasksState) < Len(initialTasks)
  /\ Len(containers["todo"]) + Len(containers["doing"]) + Len(containers["done"])
       = Len(currentTasksState)

\* C11: render is idempotent: on a board that shows the store, another render
\* of the same store leaves each column's cards (same tasks, same order, no
\* duplicates) and each header's label and count as they are, and so does a
\* third.
C11_RenderIdempotent ==
  LET once == [c |-> renderTasksContainers(currentTasksState, containers),
               h |-> updateTaskCountDisplays(currentTasksState, headers)]
      twice == [c |-> renderTasksContainers(currentTasksState, once.c),
                h |-> updateTaskCountDisplays(currentTasksState, once.h)]
  IN  /\ once.c = containers
      /\ once.h = headers
      /\ twice = once

\* Save in the modal of a seeded task with the fields left as they were: the
\* handler rendered the seeded store a second time in a row
C11_Witness ==
  /\ IsUpdate(lastOp)
  /\ lastOp.found
  /\ steps = 2
  /\ currentTasksState = initialTasks
  /\ DisplayedCount("todo") = 4

====
